---------------------------- MODULE Spec2Model ----------------------------
(***************************************************************************)
(* A model of slipbox-core (src/slipbox-core/src/lib.rs): the tag parser   *)
(* (_parse_tag_text), the metadata block locator (_parse_tags), the        *)
(* directory scan (State::new / _read_notes), Vault::new and the two       *)
(* queries of State (tags, notes_from_tag).                                *)
(*                                                                         *)
(* A Rust &str / String is a sequence of one-character strings, so that    *)
(* split, trim, starts_with and trim_matches are computed character by     *)
(* character as the standard library computes them.                        *)
(***************************************************************************)
EXTENDS Naturals, Sequences, FiniteSets

VARIABLES
    tag_text,     \* _parse_tag_text: the argument
    parsed,       \* _parse_tag_text: the returned Result
    note_file,    \* _parse_tags: the note file, with its event stream
    located,      \* _parse_tags: the returned Result
    path,         \* Vault::new: the argument, a sequence of path components
    dir_ok,       \* whether fs::read_dir(path) succeeds
    listing,      \* the entries fs::read_dir yields, in listing order
    pc,           \* position inside Vault::new
    idx,          \* _read_notes: index of the next entry of the loop
    notes,        \* State::new: state.notes of the State under construction
    reads,        \* indices of the entries whose file was opened, in order
    enumerated,   \* whether fs::read_dir was called
    state_path,   \* the path State::new was called with
    result,       \* Vault::new: tag and message of the returned Result
    vault,        \* Vault::new: the Vault of an Ok result
    qtag,         \* notes_from_tag: the argument of the last call
    qnotes,       \* notes_from_tag: the returned Vec<Note>
    qtags         \* tags: the returned HashSet<String>

text_vars  == <<tag_text, parsed>>
event_vars == <<note_file, located>>
vault_vars == <<path, dir_ok, listing, pc, idx, notes, reads, enumerated,
                state_path, result, vault, qtag, qnotes, qtags>>
vars == <<tag_text, parsed, note_file, located, path, dir_ok, listing, pc, idx,
          notes, reads, enumerated, state_path, result, vault, qtag, qnotes,
          qtags>>

---------------------------------------------------------------------------
(* Bounds of the model. *)

\* fragments concatenated into one metadata text
MaxFrags == 4
\* events in one event stream
MaxEvents == 3
\* entries in one directory listing
MaxEntries == 3

---------------------------------------------------------------------------
(* Result<T>, error.rs *)

Ok(v) == [tag |-> "Ok", val |-> v, msg |-> ""]
MetaDataError(m) == [tag |-> "MetaDataError", val |-> <<>>, msg |-> m]
\* the message tells which call failed
StdIo(m) == [tag |-> "StdIo", val |-> <<>>, msg |-> m]
InvalidPath == [tag |-> "InvalidPath", val |-> <<>>, msg |-> ""]
\* no call has returned yet
Pending == [tag |-> "Pending", val |-> <<>>, msg |-> ""]

MSG_NO_TAG == "Must specify at least one tag."
MSG_NO_METADATA == "Incorrectly formatted metadata tags or missing entirely."

---------------------------------------------------------------------------
(* Strings *)

TAG_IDENTIFIER == <<"t", "a", "g", "s", ":">>

\* char::is_whitespace, on the characters of the model
IsWhitespace(c) == c \in {" ", "\t", "\r", "\n"}

\* the closure of trim_matches: matches!(c, '[' | ']' | ',' | '\"')
IsEdgeChar(c) == c \in {"[", "]", ",", "\""}

RECURSIVE Split(_, _)
\* str::split(char): the pieces between the separators, empty pieces kept
Split(s, sep) ==
    IF \A i \in 1..Len(s) : s[i] # sep
    THEN <<s>>
    ELSE LET i == CHOOSE k \in 1..Len(s) :
                      s[k] = sep /\ \A j \in 1..(k - 1) : s[j] # sep
         IN  <<SubSeq(s, 1, i - 1)>> \o Split(SubSeq(s, i + 1, Len(s)), sep)

RECURSIVE TrimStart(_)
TrimStart(s) ==
    IF s # <<>> /\ IsWhitespace(Head(s)) THEN TrimStart(Tail(s)) ELSE s

RECURSIVE TrimEnd(_)
TrimEnd(s) ==
    IF s # <<>> /\ IsWhitespace(s[Len(s)])
    THEN TrimEnd(SubSeq(s, 1, Len(s) - 1))
    ELSE s

\* str::trim
Trim(s) == TrimEnd(TrimStart(s))

\* str::starts_with
StartsWith(s, p) == Len(s) >= Len(p) /\ SubSeq(s, 1, Len(p)) = p

RECURSIVE TrimMatchesStart(_)
TrimMatchesStart(s) ==
    IF s # <<>> /\ IsEdgeChar(Head(s)) THEN TrimMatchesStart(Tail(s)) ELSE s

RECURSIVE TrimMatchesEnd(_)
TrimMatchesEnd(s) ==
    IF s # <<>> /\ IsEdgeChar(s[Len(s)])
    THEN TrimMatchesEnd(SubSeq(s, 1, Len(s) - 1))
    ELSE s

\* a variant that strips the edge characters from the front only
TrimMatchesFrontOnly(s) == TrimMatchesStart(s)

\* str::trim_matches with the closure of line 145
TrimMatches(s) == TrimMatchesEnd(TrimMatchesStart(s))

RECURSIVE TakeWord(_)
\* the longest prefix without whitespace
TakeWord(s) ==
    IF s = <<>> \/ IsWhitespace(Head(s)) THEN <<>>
    ELSE <<Head(s)>> \o TakeWord(Tail(s))

RECURSIVE SplitWhitespace(_)
\* str::split_whitespace: the maximal runs of non-whitespace, none empty
SplitWhitespace(s) ==
    LET t == TrimStart(s)
    IN  IF t = <<>> THEN <<>>
        ELSE LET w == TakeWord(t)
             IN  <<w>> \o SplitWhitespace(SubSeq(t, Len(w) + 1, Len(t)))

RECURSIVE Flatten(_)
\* Iterator::flatten over a sequence of sequences
Flatten(ss) == IF ss = <<>> THEN <<>> ELSE Head(ss) \o Flatten(Tail(ss))


---------------------------------------------------------------------------
(* State::_parse_tag_text *)

IsTagLine(s) == StartsWith(s, TAG_IDENTIFIER)
StripIdentifier(s) == Trim(SubSeq(s, Len(TAG_IDENTIFIER) + 1, Len(s)))

\* line 130: every line trimmed
TrimLines(lines) == [i \in 1..Len(lines) |-> Trim(lines[i])]

\* line 132: the identifier cut from every retained line
StripIdentifiers(lines) ==
    [i \in 1..Len(lines) |-> StripIdentifier(lines[i])]

\* a variant that looks for the identifier without trimming the line first
RawTagsUntrimmed(text) ==
    StripIdentifiers(SelectSeq(Split(text, "\n"), IsTagLine))

\* lines 128-133: the content of every line that starts with `tags:`
RawTags(text) ==
    StripIdentifiers(SelectSeq(TrimLines(Split(text, "\n")), IsTagLine))

\* lines 143-148: the tags of one line's content
TagsOfLine(s) ==
    LET tokens == SplitWhitespace(s)
    IN  [i \in 1..Len(tokens) |-> TrimMatches(tokens[i])]

\* lines 126-153
_parse_tag_text(text) ==
    LET raw_tags == RawTags(text)
    IN  IF raw_tags = <<>>
        THEN MetaDataError(MSG_NO_TAG)
        ELSE Ok(Flatten([i \in 1..Len(raw_tags) |-> TagsOfLine(raw_tags[i])]))

---------------------------------------------------------------------------
(* pulldown_cmark events and State::_parse_tags *)

StartMetadataBlock(style) ==
    [kind |-> "StartMetadataBlock", style |-> style, cow |-> "", text |-> <<>>]
\* Event::Text(CowStr::Borrowed(t)) when cow = "Borrowed"; any other CowStr
\* (the String TextMergeStream builds when it merges runs) when "Boxed"
Text(cow, t) == [kind |-> "Text", style |-> "", cow |-> cow, text |-> t]
\* any other event: Start(Paragraph), End(MetadataBlock), ...
OtherEvent(kind) == [kind |-> kind, style |-> "", cow |-> "", text |-> <<>>]

\* Option<T>: None is the empty sequence, Some(x) the sequence of x alone
None == <<>>
Some(x) == <<x>>

\* lines 104-110
meta_data_predicate(event) ==
    /\ event.kind = "StartMetadataBlock"
    /\ event.style \in {"PlusesStyle", "YamlStyle"}

RECURSIVE SkipWhileMetaData(_)
\* Iterator::skip_while(meta_data_predicate)
SkipWhileMetaData(evs) ==
    IF evs # <<>> /\ meta_data_predicate(Head(evs))
    THEN SkipWhileMetaData(Tail(evs))
    ELSE evs

RECURSIVE SkipUntilAfterMetaData(_)
\* a variant that skips every event up to and including the first start of
\* a metadata block
SkipUntilAfterMetaData(evs) ==
    IF evs = <<>> THEN evs
    ELSE IF meta_data_predicate(Head(evs)) THEN Tail(evs)
    ELSE SkipUntilAfterMetaData(Tail(evs))

\* line 112, without the final next(): the events from the first one that
\* is not skipped
NotSkipped(evs) == SkipWhileMetaData(evs)

\* Iterator::next
NextEvent(evs) == IF evs = <<>> THEN None ELSE Some(Head(evs))

\* a variant whose fallback arm reports a note without tags
MatchTextEventLenient(text_event) ==
    IF /\ text_event # None
       /\ text_event[1].kind = "Text"
       /\ text_event[1].cow = "Borrowed"
    THEN _parse_tag_text(text_event[1].text)
    ELSE Ok(<<>>)

\* lines 114-123
MatchTextEvent(text_event) ==
    IF /\ text_event # None
       /\ text_event[1].kind = "Text"
       /\ text_event[1].cow = "Borrowed"
    THEN _parse_tag_text(text_event[1].text)
    ELSE MetaDataError(MSG_NO_METADATA)

\* lines 90-124. A file is its readability and the events the parser yields
\* for its contents.
_parse_tags(file) ==
    IF ~file.readable
    THEN StdIo("open")
    ELSE MatchTextEvent(NextEvent(NotSkipped(file.events)))

---------------------------------------------------------------------------
(* Paths: a PathBuf is the sequence of its components, a component and a   *)
(* file name a string.                                                      *)

RootDir == <<"/">>
CurDir == <<".">>
ParentDir == <<".", ".">>

\* Path::file_name: the final component, if it is a normal one
file_name(p) ==
    IF p = <<>> \/ p[Len(p)] \in {RootDir, CurDir, ParentDir}
    THEN None
    ELSE Some(p[Len(p)])

\* the position of the last `.` of a file name that splits it into stem and
\* extension; 0 when the name has no extension (no dot, or only a first one)
LastDot(name) ==
    LET dots == {i \in 2..Len(name) : name[i] = "."}
    IN  IF dots = {} THEN 0 ELSE CHOOSE i \in dots : \A j \in dots : j <= i

\* Path::extension
extension(p) ==
    LET name == file_name(p)
    IN  IF name = None \/ LastDot(name[1]) = 0 THEN None
        ELSE Some(SubSeq(name[1], LastDot(name[1]) + 1, Len(name[1])))

\* Path::file_stem
file_stem(p) ==
    LET name == file_name(p)
    IN  IF name = None THEN None
        ELSE IF LastDot(name[1]) = 0 THEN name
        ELSE Some(SubSeq(name[1], 1, LastDot(name[1]) - 1))

\* Option::unwrap_or_default on an Option<&OsStr>
UnwrapOrDefault(o) == IF o = None THEN <<>> ELSE o[1]

\* DirEntry::path
EntryPath(dir, entry) == Append(dir, entry.name)

\* a variant that compares the extension without regard to case
IsNoteFileAnyCase(entry, entry_path) ==
    /\ entry.kind = "file"
    /\ UnwrapOrDefault(extension(entry_path)) \in {<<"m", "d">>, <<"M", "D">>}

\* a variant that does not ask whether the entry is a regular file
IsNoteFileOrDir(entry, entry_path) ==
    UnwrapOrDefault(extension(entry_path)) = <<"m", "d">>

\* line 75: path.is_file() && path.extension().unwrap_or_default() == "md"
IsNoteFile(entry, entry_path) ==
    /\ entry.kind = "file"
    /\ UnwrapOrDefault(extension(entry_path)) = <<"m", "d">>

---------------------------------------------------------------------------
(* State::tags and State::notes_from_tag *)

RECURSIVE InsertAll(_, _)
\* lines 50-52: every tag of one note inserted into the set
InsertAll(tag_set, note_tags) ==
    IF note_tags = <<>> THEN tag_set
    ELSE InsertAll(tag_set \cup {Head(note_tags)}, Tail(note_tags))

RECURSIVE TagsOfNotes(_, _)
\* lines 49-53: the fold over the notes
TagsOfNotes(tag_set, ns) ==
    IF ns = <<>> THEN tag_set
    ELSE TagsOfNotes(InsertAll(tag_set, Head(ns).tags), Tail(ns))

\* a variant that inserts the first tag of every note only
tagsFirstOfEachNote(state) ==
    {state.notes[i].tags[1] :
        i \in {k \in 1..Len(state.notes) : state.notes[k].tags # <<>>}}

\* lines 47-55
tags(state) == TagsOfNotes({}, state.notes)

\* a variant that accepts a tag the argument is a prefix of
TagMatchesPrefix(tag_string, tag) == StartsWith(tag_string, tag)

\* line 65: tag_string == tag
TagMatches(tag_string, tag) == tag_string = tag

RECURSIVE Any(_, _)
\* Iterator::any with the closure of line 65
Any(note_tags, tag) ==
    IF note_tags = <<>> THEN FALSE
    ELSE IF TagMatches(Head(note_tags), tag) THEN TRUE
    ELSE Any(Tail(note_tags), tag)

\* lines 57-68
notes_from_tag(state, tag) ==
    SelectSeq(state.notes, LAMBDA note : Any(note.tags, tag))

---------------------------------------------------------------------------
(* Inputs of _parse_tag_text *)

Fragments ==
    { TAG_IDENTIFIER, <<"T", "a", "g", "s", ":">>, <<"a">>, <<"b">>, <<" ">>,
      <<"\n">>, <<",">>, <<"[">>, <<"]">>, <<"\"">> }

RECURSIVE Concats(_)
\* the concatenations of at most n fragments
Concats(n) ==
    IF n = 0 THEN {<<>>}
    ELSE LET shorter == Concats(n - 1)
         IN  shorter \cup {s \o f : s \in shorter, f \in Fragments}

\* `tags: [rust, "systems", design,]`
ExampleList ==
    <<"t", "a", "g", "s", ":", " ", "[", "r", "u", "s", "t", ",", " ", "\"",
      "s", "y", "s", "t", "e", "m", "s", "\"", ",", " ", "d", "e", "s", "i",
      "g", "n", ",", "]">>
\* `tags: a b` followed by `tags: c`
ExampleTwoLines ==
    <<"t", "a", "g", "s", ":", " ", "a", " ", "b", "\n",
      "t", "a", "g", "s", ":", " ", "c">>
\* `mytags: a` and `  tags:a` on two lines
ExampleMixed ==
    <<"m", "y", "t", "a", "g", "s", ":", " ", "a", "\n",
      " ", " ", "t", "a", "g", "s", ":", "a", "\r">>

Texts == Concats(MaxFrags) \cup {ExampleList, ExampleTwoLines, ExampleMixed}

---------------------------------------------------------------------------
(* Defaults of the variables a specification does not use *)

TextIdle  == tag_text = <<>> /\ parsed = Pending
EventIdle ==
    note_file = [readable |-> TRUE, events |-> <<>>] /\ located = Pending
VaultIdle ==
    /\ path = <<>> /\ dir_ok = TRUE /\ listing = <<>> /\ pc = "idle"
    /\ idx = 1 /\ notes = <<>> /\ reads = <<>> /\ enumerated = FALSE
    /\ state_path = None /\ result = Pending /\ vault = None
    /\ qtag = None /\ qnotes = <<>> /\ qtags = None

---------------------------------------------------------------------------
(* The specification of _parse_tag_text *)

InitText ==
    /\ tag_text \in Texts
    /\ parsed = Pending
    /\ EventIdle
    /\ VaultIdle

ParseTagText ==
    /\ parsed = Pending
    /\ parsed' = _parse_tag_text(tag_text)
    /\ UNCHANGED <<tag_text, event_vars, vault_vars>>

NextText == ParseTagText
SpecText == InitText /\ [][NextText]_vars

---------------------------------------------------------------------------
(* Inputs of _parse_tags *)

\* `tags: a ab`
TextTagsA == <<"t", "a", "g", "s", ":", " ", "a", " ", "a", "b">>
\* `tags: [ab, b]`
TextTagsB == <<"t", "a", "g", "s", ":", " ", "[", "a", "b", ",", " ", "b", "]">>
\* `tags:`
TextTagsNone == TAG_IDENTIFIER
\* `title: a`
TextNoTags == <<"t", "i", "t", "l", "e", ":", " ", "a">>

EventTexts == {TextTagsA, TextTagsNone, TextNoTags}

EventAlphabet ==
    {StartMetadataBlock("YamlStyle"), StartMetadataBlock("PlusesStyle"),
     OtherEvent("StartParagraph"), OtherEvent("EndMetadataBlock")}
    \cup {Text(c, t) : c \in {"Borrowed", "Boxed"}, t \in EventTexts}

RECURSIVE EventSeqs(_)
EventSeqs(n) ==
    IF n = 0 THEN {<<>>}
    ELSE LET shorter == EventSeqs(n - 1)
         IN  shorter \cup {Append(s, e) : s \in shorter, e \in EventAlphabet}

\* What the parser and TextMergeStream yield (line 101): a text run lies
\* inside a block, so it is never the first event, and two text runs are
\* never adjacent, since adjacent runs are merged into one.
WellFormed(evs) ==
    \A i \in 1..Len(evs) :
        evs[i].kind = "Text" => i > 1 /\ evs[i - 1].kind # "Text"

NoteFiles ==
    {[readable |-> TRUE, events |-> evs] :
        evs \in {e \in EventSeqs(MaxEvents) : WellFormed(e)}}
    \cup {[readable |-> FALSE, events |-> <<>>]}

---------------------------------------------------------------------------
(* The specification of _parse_tags *)

InitNote ==
    /\ note_file \in NoteFiles
    /\ located = Pending
    /\ TextIdle
    /\ VaultIdle

ParseTags ==
    /\ located = Pending
    /\ located' = _parse_tags(note_file)
    /\ UNCHANGED <<note_file, text_vars, vault_vars>>

NextNote == ParseTags
SpecNote == InitNote /\ [][NextNote]_vars

---------------------------------------------------------------------------
(* Inputs of Vault::new *)

Unreadable == [readable |-> FALSE, events |-> <<>>]
Readable(evs) == [readable |-> TRUE, events |-> evs]

DocA ==
    Readable(<<StartMetadataBlock("YamlStyle"), Text("Borrowed", TextTagsA),
               OtherEvent("EndMetadataBlock")>>)
DocB ==
    Readable(<<StartMetadataBlock("PlusesStyle"), Text("Borrowed", TextTagsB),
               OtherEvent("EndMetadataBlock"), OtherEvent("StartParagraph"),
               Text("Borrowed", TextNoTags)>>)
DocTagsNone ==
    Readable(<<StartMetadataBlock("YamlStyle"),
               Text("Borrowed", TextTagsNone),
               OtherEvent("EndMetadataBlock")>>)
DocNoTags ==
    Readable(<<StartMetadataBlock("YamlStyle"), Text("Borrowed", TextNoTags),
               OtherEvent("EndMetadataBlock")>>)
DocNoMetadata ==
    Readable(<<OtherEvent("StartParagraph"), Text("Borrowed", TextTagsA)>>)
DocEmpty == Readable(<<>>)
DocMergedText ==
    Readable(<<StartMetadataBlock("YamlStyle"), Text("Boxed", TextTagsA),
               OtherEvent("EndMetadataBlock")>>)
DocNoText ==
    Readable(<<StartMetadataBlock("PlusesStyle"),
               OtherEvent("EndMetadataBlock")>>)

NoteDocs ==
    {DocA, DocB, DocTagsNone, DocNoTags, DocNoMetadata, DocEmpty,
     DocMergedText, DocNoText, Unreadable}

DotMd == <<".", "m", "d">>
DotMdUpper == <<".", "M", "D">>
DotTxt == <<".", "t", "x", "t">>

\* What one entry of the listing can be: an entry the iterator fails on, a
\* directory named like a note, regular files that are no notes, and notes.
EntryShapes ==
    {[kind |-> "err", suffix |-> <<>>, file |-> Unreadable],
     [kind |-> "dir", suffix |-> DotMd, file |-> Unreadable],
     [kind |-> "file", suffix |-> DotMdUpper, file |-> DocA],
     [kind |-> "file", suffix |-> DotTxt, file |-> Unreadable]}
    \cup {[kind |-> "file", suffix |-> DotMd, file |-> f] : f \in NoteDocs}

RECURSIVE ShapeSeqs(_)
ShapeSeqs(n) ==
    IF n = 0 THEN {<<>>}
    ELSE LET shorter == ShapeSeqs(n - 1)
         IN  shorter \cup {Append(s, e) : s \in shorter, e \in EntryShapes}

Digits == <<"1", "2", "3", "4", "5", "6", "7", "8", "9">>

\* the i-th entry of a directory is named N<i><suffix>
EntryOf(shape, i) ==
    [kind |-> shape.kind,
     name |-> <<"N", Digits[i]>> \o shape.suffix,
     file |-> shape.file]

Listings ==
    {[i \in 1..Len(shapes) |-> EntryOf(shapes[i], i)] :
        shapes \in ShapeSeqs(MaxEntries)}

VaultName == <<"v", "a", "u", "l", "t">>
Paths ==
    {<<>>, <<RootDir>>, <<CurDir, ParentDir>>,
     <<CurDir, <<"t", "e", "s", "t", "s">>, VaultName>>}

QueryTags == {<<"a">>, <<"b">>, <<"a", "b">>, <<"z">>}

---------------------------------------------------------------------------
(* Vault::new, State::new and State::_read_notes *)

Note(name, note_path, note_tags) ==
    [name |-> name, path |-> note_path, tags |-> note_tags]

Init ==
    /\ path \in Paths
    /\ dir_ok \in BOOLEAN
    /\ listing \in Listings
    /\ ~dir_ok => listing = <<>>
    /\ pc = "start"
    /\ idx = 1
    /\ notes = <<>>
    /\ reads = <<>>
    /\ enumerated = FALSE
    /\ state_path = None
    /\ result = Pending
    /\ vault = None
    /\ qtag = None
    /\ qnotes = <<>>
    /\ qtags = None
    /\ TextIdle
    /\ EventIdle

\* a variant that builds the State before it looks at the name
VaultNewStateFirst ==
    /\ pc = "start"
    /\ state_path' = Some(path)
    /\ enumerated' = TRUE
    /\ notes' = <<>>
    /\ IF ~dir_ok
       THEN result' = StdIo("read_dir") /\ pc' = "done"
       ELSE IF file_name(path) = None
       THEN result' = InvalidPath /\ pc' = "done"
       ELSE result' = result /\ pc' = "read_notes"
    /\ UNCHANGED <<path, dir_ok, listing, idx, reads, vault, qtag, qnotes,
                   qtags, text_vars, event_vars>>

\* lines 167-179 and 41-43, 71: the name is taken from the path, then
\* State::new is called with the path and opens the directory
VaultNew ==
    /\ pc = "start"
    /\ IF file_name(path) = None
       THEN /\ result' = InvalidPath
            /\ pc' = "done"
            /\ UNCHANGED <<state_path, enumerated, notes>>
       ELSE /\ state_path' = Some(path)
            /\ enumerated' = TRUE
            /\ notes' = <<>>
            /\ IF dir_ok
               THEN result' = result /\ pc' = "read_notes"
               ELSE result' = StdIo("read_dir") /\ pc' = "done"
    /\ UNCHANGED <<path, dir_ok, listing, idx, reads, vault, qtag, qnotes,
                   qtags, text_vars, event_vars>>

\* a variant that skips a note whose tags cannot be parsed
ReadNotesStepSkipping ==
    /\ pc = "read_notes"
    /\ idx <= Len(listing)
    /\ LET entry == listing[idx]
           entry_path == EntryPath(state_path[1], entry)
       IN  IF entry.kind = "err"
           THEN /\ result' = StdIo("entry")
                /\ pc' = "done"
                /\ UNCHANGED <<idx, notes, reads>>
           ELSE IF IsNoteFile(entry, entry_path)
           THEN LET note_tags == _parse_tags(entry.file)
                IN  /\ reads' = Append(reads, idx)
                    /\ notes' = IF note_tags.tag = "Ok"
                                THEN Append(notes,
                                            Note(file_stem(entry_path)[1],
                                                 entry_path, note_tags.val))
                                ELSE notes
                    /\ idx' = idx + 1
                    /\ UNCHANGED <<result, pc>>
           ELSE /\ idx' = idx + 1
                /\ UNCHANGED <<result, pc, notes, reads>>
    /\ UNCHANGED <<path, dir_ok, listing, enumerated, state_path, vault,
                   qtag, qnotes, qtags, text_vars, event_vars>>

\* lines 71-84: one turn of the loop over the entries
ReadNotesStep ==
    /\ pc = "read_notes"
    /\ idx <= Len(listing)
    /\ LET entry == listing[idx]
           entry_path == EntryPath(state_path[1], entry)
       IN  IF entry.kind = "err"
           THEN /\ result' = StdIo("entry")
                /\ pc' = "done"
                /\ UNCHANGED <<idx, notes, reads>>
           ELSE IF IsNoteFile(entry, entry_path)
           THEN LET note_tags == _parse_tags(entry.file)
                IN  /\ reads' = Append(reads, idx)
                    /\ IF note_tags.tag = "Ok"
                       THEN /\ notes' = Append(notes,
                                               Note(file_stem(entry_path)[1],
                                                    entry_path, note_tags.val))
                            /\ idx' = idx + 1
                            /\ UNCHANGED <<result, pc>>
                       ELSE /\ result' = note_tags
                            /\ pc' = "done"
                            /\ UNCHANGED <<idx, notes>>
           ELSE /\ idx' = idx + 1
                /\ UNCHANGED <<result, pc, notes, reads>>
    /\ UNCHANGED <<path, dir_ok, listing, enumerated, state_path, vault,
                   qtag, qnotes, qtags, text_vars, event_vars>>

\* lines 86, 44 and 175-180: the loop is over, the State and then the Vault
\* are returned
VaultNewReturn ==
    /\ pc = "read_notes"
    /\ idx > Len(listing)
    /\ result' = Ok(<<>>)
    /\ vault' = Some([vault_path |-> path,
                      name |-> file_name(path)[1],
                      created_on |-> None,
                      state |-> [notes |-> notes]])
    /\ pc' = "done"
    /\ UNCHANGED <<path, dir_ok, listing, idx, notes, reads, enumerated,
                   state_path, qtag, qnotes, qtags, text_vars, event_vars>>

\* lines 47-55, called on the State of a Vault that was built
Tags ==
    /\ pc = "done"
    /\ vault # None
    /\ qtags' = Some(tags(vault[1].state))
    /\ UNCHANGED <<path, dir_ok, listing, pc, idx, notes, reads, enumerated,
                   state_path, result, vault, qtag, qnotes, text_vars,
                   event_vars>>

\* lines 57-68, called on the State of a Vault that was built
NotesFromTag ==
    /\ pc = "done"
    /\ vault # None
    /\ \E tag \in QueryTags :
          /\ qtag' = Some(tag)
          /\ qnotes' = notes_from_tag(vault[1].state, tag)
    /\ UNCHANGED <<path, dir_ok, listing, pc, idx, notes, reads, enumerated,
                   state_path, result, vault, qtags, text_vars, event_vars>>

Next ==
    \/ VaultNew
    \/ ReadNotesStep
    \/ VaultNewReturn
    \/ Tags
    \/ NotesFromTag

Spec == Init /\ [][Next]_vars

---------------------------------------------------------------------------
(* What the specification says of a metadata text, stated over the          *)
(* positions of the text instead of by splitting it.                        *)

SpecWhitespace == {" ", "\t", "\r", "\n"}
SpecEdgeChars == {"[", "]", ",", "\""}
SpecPrefix == <<"t", "a", "g", "s", ":">>

\* position i of text t and every position before it on the same line
SameLineUpTo(t, i) ==
    {j \in 1..i : \A k \in j..(i - 1) : t[k] # "\n"}

\* a line of t, once trimmed, begins with `tags:` at position i
TagAt(t, i) ==
    /\ i + 4 <= Len(t)
    /\ \A k \in 0..4 : t[i + k] = SpecPrefix[k + 1]
    /\ \A j \in SameLineUpTo(t, i) \ {i} : t[j] \in SpecWhitespace

TagPositions(t) == {i \in 1..Len(t) : TagAt(t, i)}

\* a maximal run of non-whitespace characters begins at position a
WordStart(t, a) ==
    /\ t[a] \notin SpecWhitespace
    /\ a = 1 \/ t[a - 1] \in SpecWhitespace

\* the last position of the run that begins at a
WordEnd(t, a) ==
    CHOOSE b \in a..Len(t) :
        /\ \A k \in a..b : t[k] \notin SpecWhitespace
        /\ b = Len(t) \/ t[b + 1] \in SpecWhitespace

\* the run that begins at a lies on a line that declares tags
OnTagLine(t, a) == \E p \in SameLineUpTo(t, a) : TagAt(t, p)

\* where the token of the run at a begins: after the prefix, if the run
\* is the one that carries it
TokenFrom(t, a) == IF TagAt(t, a) THEN a + 5 ELSE a

\* the runs that yield a token
TokenStarts(t) ==
    {a \in 1..Len(t) :
        WordStart(t, a) /\ OnTagLine(t, a) /\ TokenFrom(t, a) <= WordEnd(t, a)}

\* w without its leading and trailing edge characters
Stripped(w) ==
    LET core == {k \in 1..Len(w) : w[k] \notin SpecEdgeChars}
    IN  IF core = {} THEN <<>>
        ELSE SubSeq(w, CHOOSE k \in core : \A m \in core : k <= m,
                       CHOOSE k \in core : \A m \in core : k >= m)

\* the k-th smallest element of a set of numbers
Kth(S, k) == CHOOSE a \in S : Cardinality({x \in S : x < a}) = k - 1

\* the tag sequence the specification gives for t
ExpectedTags(t) ==
    LET starts == TokenStarts(t)
    IN  [k \in 1..Cardinality(starts) |->
            LET a == Kth(starts, k)
            IN  Stripped(SubSeq(t, TokenFrom(t, a), WordEnd(t, a)))]

\* the content of the tag line whose prefix is at position p
ExpectedContent(t, p) ==
    LET rest == {k \in (p + 5)..Len(t) :
                    /\ \A m \in (p + 5)..k : t[m] # "\n"
                    /\ t[k] \notin SpecWhitespace}
    IN  IF rest = {} THEN <<>>
        ELSE SubSeq(t, CHOOSE k \in rest : \A m \in rest : k <= m,
                       CHOOSE k \in rest : \A m \in rest : k >= m)

---------------------------------------------------------------------------
(* Properties of _parse_tag_text, under SpecText *)

\* C1: every Ok result of _parse_tag_text carries at least one tag, also
\* when a retained line is exactly `tags:`.
C1_OkHasATag ==
    parsed.tag = "Ok" => Len(parsed.val) >= 1

\* C4: _parse_tag_text fails, with "Must specify at least one tag.", exactly
\* when no line of the text begins, once trimmed, with the case-sensitive
\* prefix `tags:`; otherwise it succeeds, and the retained lines are the
\* matching lines, each with its own content, in order.
C4_NoTagLineIffError ==
    parsed # Pending =>
        /\ parsed.tag \in {"Ok", "MetaDataError"}
        /\ (parsed.tag = "MetaDataError") <=> (TagPositions(tag_text) = {})
        /\ parsed.tag = "MetaDataError" => parsed.msg = MSG_NO_TAG
        /\ Len(RawTags(tag_text)) = Cardinality(TagPositions(tag_text))
        /\ \A k \in 1..Cardinality(TagPositions(tag_text)) :
              RawTags(tag_text)[k] =
                  ExpectedContent(tag_text, Kth(TagPositions(tag_text), k))

\* a text with a `mytags:` line that is not retained and an indented
\* `tags:a` line that is
C4_Witness ==
    /\ tag_text = ExampleMixed
    /\ parsed = Ok(<<<<"a">>>>)

\* C5: the tag sequence of an Ok result is the sequence of whitespace
\* separated tokens of the tag lines, in line order and left to right, each
\* without its leading and trailing `[`, `]`, `,`, `"`; empty tags and
\* duplicates are kept.
C5_TagsAreStrippedTokens ==
    /\ parsed.tag = "Ok" => parsed.val = ExpectedTags(tag_text)
    /\ parsed # Pending /\ tag_text = ExampleList =>
          parsed = Ok(<< <<"r", "u", "s", "t">>,
                         <<"s", "y", "s", "t", "e", "m", "s">>,
                         <<"d", "e", "s", "i", "g", "n">> >>)
    /\ parsed # Pending /\ tag_text = ExampleTwoLines =>
          parsed = Ok(<< <<"a">>, <<"b">>, <<"c">> >>)
    /\ parsed # Pending /\ tag_text = <<"t", "a", "g", "s", ":", "a", ",", "b">> =>
          parsed = Ok(<< <<"a", ",", "b">> >>)
    /\ parsed # Pending /\ tag_text = <<"t", "a", "g", "s", ":", " ", "[", "]">> =>
          parsed = Ok(<< <<>> >>)
    /\ parsed # Pending /\ tag_text = <<"t", "a", "g", "s", ":", "a", " ", "a">> =>
          parsed = Ok(<< <<"a">>, <<"a">> >>)

\* the list example has been tokenized
C5_Witness ==
    /\ tag_text = ExampleList
    /\ parsed.tag = "Ok"
    /\ Len(parsed.val) = 3


---------------------------------------------------------------------------
(* Properties of _parse_tags, under SpecNote *)

IsStart(e) == e.kind = "StartMetadataBlock"
IsBorrowedText(e) == e.kind = "Text" /\ e.cow = "Borrowed"

\* the position of the first start of a metadata block; 0 when there is none
FirstStart(evs) ==
    IF \E i \in 1..Len(evs) : IsStart(evs[i])
    THEN CHOOSE i \in 1..Len(evs) :
             IsStart(evs[i]) /\ \A j \in 1..(i - 1) : ~IsStart(evs[j])
    ELSE 0

\* the position of the first event that is no start of a metadata block;
\* 0 when there is none
FirstNonStart(evs) ==
    IF \E i \in 1..Len(evs) : ~IsStart(evs[i])
    THEN CHOOSE i \in 1..Len(evs) :
             ~IsStart(evs[i]) /\ \A j \in 1..(i - 1) : IsStart(evs[j])
    ELSE 0

\* C2, as claimed: every event before the first start of a metadata block
\* is skipped, and the text run of that block is handed to tag extraction.
C2_SkipsToFirstBlock ==
    located # Pending /\ note_file.readable =>
        LET evs == note_file.events
            k == FirstStart(evs)
        IN  k > 0 /\ k < Len(evs) /\ IsBorrowedText(evs[k + 1]) =>
                located = _parse_tag_text(evs[k + 1].text)

\* C2, amended: only the starts of metadata blocks that open the sequence
\* are skipped; the event that follows them is handed to tag extraction when
\* it is a borrowed text run, and the parse fails otherwise, so a sequence
\* with another event before the start of the metadata block fails.
C2_SkipsLeadingStarts ==
    located # Pending /\ note_file.readable =>
        LET evs == note_file.events
            k == FirstNonStart(evs)
        IN  /\ k > 0 /\ IsBorrowedText(evs[k]) =>
                   located = _parse_tag_text(evs[k].text)
            /\ k = 0 \/ ~IsBorrowedText(evs[k]) =>
                   located = MetaDataError(MSG_NO_METADATA)
            /\ FirstStart(evs) > 1 => located = MetaDataError(MSG_NO_METADATA)

\* a block that opens the document has been parsed, and a document with a
\* paragraph before its block has been refused
C2_Witness ==
    /\ note_file.events = <<StartMetadataBlock("YamlStyle"),
                            Text("Borrowed", TextTagsA),
                            OtherEvent("EndMetadataBlock")>>
    /\ located = Ok(<< <<"a">>, <<"a", "b">> >>)


---------------------------------------------------------------------------
(* What the specification says of a directory listing *)

\* the path has a final component
SpecHasName(p) ==
    /\ p # <<>>
    /\ p[Len(p)] \notin {<<"/">>, <<".">>, <<".", ".">>}

\* the entry is a regular file with extension exactly `md`
SpecIsMd(e) ==
    /\ e.kind = "file"
    /\ Len(e.name) > 3
    /\ SubSeq(e.name, Len(e.name) - 2, Len(e.name)) = <<".", "m", "d">>

\* the file name without `.md`
SpecStem(name) == SubSeq(name, 1, Len(name) - 3)

\* the document has no metadata block, or what follows the starts that open
\* it is not one borrowed text run
SpecMalformed(file) ==
    /\ file.readable
    /\ \/ file.events = <<>>
       \/ FirstStart(file.events) = 0
       \/ FirstNonStart(file.events) = 0
       \/ ~IsBorrowedText(file.events[FirstNonStart(file.events)])

\* the document opens with a metadata block whose text declares tags
SpecWellFormedNote(file) ==
    /\ file.readable
    /\ Len(file.events) >= 2
    /\ IsStart(file.events[1])
    /\ IsBorrowedText(file.events[2])
    /\ TagPositions(file.events[2].text) # {}

\* the entry cannot be listed, or is a note that cannot be read
SpecIoFails(e) == e.kind = "err" \/ (SpecIsMd(e) /\ ~e.file.readable)

\* the entry makes the scan fail, and the error it fails with
EntryFails(e) ==
    e.kind = "err" \/ (SpecIsMd(e) /\ _parse_tags(e.file).tag # "Ok")
EntryError(e) ==
    IF e.kind = "err" THEN StdIo("entry") ELSE _parse_tags(e.file)

Failing == {i \in 1..Len(listing) : EntryFails(listing[i])}
MdEntries == {i \in 1..Len(listing) : SpecIsMd(listing[i])}

\* what State::new returns for the listing
ExpectedStateResult ==
    IF ~dir_ok THEN StdIo("read_dir")
    ELSE IF Failing = {} THEN Ok(<<>>)
    ELSE EntryError(listing[Kth(Failing, 1)])

---------------------------------------------------------------------------
(* Properties of Vault::new and the queries, under Spec *)

\* C3, as claimed: a Vault over a directory that can be listed and contains
\* a readable note without a well-placed metadata text is refused with a
\* MetaDataError.
C3_MalformedNoteGivesMetaDataError ==
    /\ pc = "done"
    /\ SpecHasName(path)
    /\ dir_ok
    /\ \A i \in 1..Len(listing) : listing[i].kind # "err"
    /\ \E i \in MdEntries : SpecMalformed(listing[i].file)
    => result.tag = "MetaDataError"

\* C3, amended: parsing a readable document whose event stream is empty, has
\* no metadata block, or does not continue with one borrowed text run fails
\* with the MetaDataError of line 119, never with StdIo and never with
\* success; a Vault over a directory with such a note is refused with a
\* MetaDataError provided no entry listed before the note fails with an I/O
\* error.
C3_MalformedNoteFirstIoFree ==
    /\ pc = "done" /\ reads # <<>>
       /\ SpecMalformed(listing[reads[Len(reads)]].file)
       => result = MetaDataError(MSG_NO_METADATA)
    /\ \A i \in MdEntries :
          /\ pc = "done"
          /\ SpecHasName(path)
          /\ dir_ok
          /\ SpecMalformed(listing[i].file)
          /\ \A j \in 1..(i - 1) : ~SpecIoFails(listing[j])
          => result.tag = "MetaDataError"

\* a note without metadata block, listed after a good note, has been refused
C3_Witness ==
    /\ pc = "done"
    /\ Len(listing) = 2
    /\ listing[1].file = DocA /\ SpecIsMd(listing[1])
    /\ listing[2].file = DocNoMetadata /\ SpecIsMd(listing[2])
    /\ reads = <<1, 2>>
    /\ result = MetaDataError(MSG_NO_METADATA)

\* C6: when an entry of the listing fails, State::new returns the error of
\* the first failing entry, no State reaches the caller, and no entry after
\* the failing one is read.
C6_FirstFailureAborts ==
    /\ result.tag # "Ok" => vault = None
    /\ vault # None => Failing = {}
    /\ pc = "done" /\ enumerated /\ dir_ok /\ Failing # {} =>
          /\ result = EntryError(listing[Kth(Failing, 1)])
          /\ vault = None
          /\ \A k \in 1..Len(reads) : reads[k] <= Kth(Failing, 1)

\* the second of three entries failed, and the third, a note, was not read
C6_Witness ==
    /\ pc = "done"
    /\ Len(listing) = 3
    /\ Failing = {2, 3}
    /\ SpecIsMd(listing[1]) /\ SpecIsMd(listing[2]) /\ SpecIsMd(listing[3])
    /\ reads = <<1, 2>>
    /\ result = MetaDataError(MSG_NO_TAG)
    /\ vault = None

\* C7: over a vault directory (a path with a final component, listed
\* without I/O error) in which every regular file with extension `md` is a
\* well-formed note, Vault::new succeeds with one Note per such file, in
\* listing order, named by the file stem; directories and files with any
\* other extension contribute nothing.
C7_OneNotePerMdFile ==
    /\ pc = "done"
    /\ SpecHasName(path)
    /\ dir_ok
    /\ \A i \in 1..Len(listing) : listing[i].kind # "err"
    /\ \A i \in MdEntries : SpecWellFormedNote(listing[i].file)
    => /\ result.tag = "Ok"
       /\ vault # None
       /\ LET ns == vault[1].state.notes
          IN  /\ Len(ns) = Cardinality(MdEntries)
              /\ \A k \in 1..Cardinality(MdEntries) :
                    LET e == listing[Kth(MdEntries, k)]
                    IN  /\ ns[k].name = SpecStem(e.name)
                        /\ ns[k].path = Append(path, e.name)
                        /\ ns[k].tags = ExpectedTags(e.file.events[2].text)

\* two notes around a directory named like a note
C7_Witness ==
    /\ pc = "done"
    /\ Len(listing) = 3
    /\ listing[1].file = DocB /\ SpecIsMd(listing[1])
    /\ listing[2].kind = "dir"
    /\ listing[3].file = DocA /\ SpecIsMd(listing[3])
    /\ vault # None
    /\ Len(vault[1].state.notes) = 2
    /\ vault[1].state.notes[1].name = <<"N", "1">>
    /\ vault[1].state.notes[2].name = <<"N", "3">>

\* C8: notes_from_tag(t) returns the Notes that carry a tag equal to t, each
\* once and in the order of state.notes, and leaves state.notes as built.
C8_NotesFromTagExact ==
    qtag # None =>
        LET ns == vault[1].state.notes
            hit == {i \in 1..Len(ns) :
                       \E k \in 1..Len(ns[i].tags) : ns[i].tags[k] = qtag[1]}
        IN  /\ Len(qnotes) = Cardinality(hit)
            /\ \A k \in 1..Cardinality(hit) : qnotes[k] = ns[Kth(hit, k)]
            /\ ns = notes

\* of a note tagged a, ab and a note tagged ab, b, only the first carries a
C8_Witness ==
    /\ qtag = Some(<<"a">>)
    /\ Len(notes) = 2
    /\ notes[1].tags = << <<"a">>, <<"a", "b">> >>
    /\ notes[2].tags = << <<"a", "b">>, <<"b">> >>
    /\ Len(qnotes) = 1
    /\ qnotes[1].name = <<"N", "1">>

\* C9: tags() returns the set of the strings that occur in the tag sequence
\* of some Note, and leaves state.notes as built.
C9_TagsIsUnion ==
    qtags # None =>
        LET ns == vault[1].state.notes
        IN  /\ qtags[1] = UNION {{ns[i].tags[k] : k \in 1..Len(ns[i].tags)} :
                                     i \in 1..Len(ns)}
            /\ ns = notes

\* ab occurs in both notes and once in the set
C9_Witness ==
    /\ qtags = Some({<<"a">>, <<"a", "b">>, <<"b">>})
    /\ Len(notes) = 2
    /\ notes[1].tags = << <<"a">>, <<"a", "b">> >>
    /\ notes[2].tags = << <<"a", "b">>, <<"b">> >>

\* C10: a path without final component is refused with InvalidPath before
\* the directory is opened; otherwise State::new is called with the path,
\* its error is returned as it is, and an Ok result carries the Vault named
\* by the final component, with the path and no creation time.
C10_NameThenState ==
    /\ ~SpecHasName(path) => ~enumerated /\ reads = <<>> /\ vault = None
    /\ pc = "done" /\ ~SpecHasName(path) => result = InvalidPath
    /\ pc = "done" /\ SpecHasName(path) =>
          /\ enumerated
          /\ state_path = Some(path)
          /\ result = ExpectedStateResult
          /\ result.tag = "Ok" =>
                /\ vault # None
                /\ vault[1].name = path[Len(path)]
                /\ vault[1].vault_path = path
                /\ vault[1].created_on = None

\* the root directory, with a note in it, has been refused
C10_Witness ==
    /\ pc = "done"
    /\ path = <<RootDir>>
    /\ dir_ok
    /\ Len(listing) = 1
    /\ listing[1].file = DocA /\ SpecIsMd(listing[1])
    /\ result = InvalidPath


=============================================================================
